---- MODULE Spec2Model ----
(***************************************************************************)
(* A model of PHPTest's createIntegrationTools(...)                       *)
(* (src/src/createIntegrationTools.js):                                    *)
(*   - the runtime factory part (createRuntime, the three shared runtimes  *)
(*     and the create*Runtime operations),                                 *)
(*   - transpile(...) and the module data map,                             *)
(*   - normaliseStack(...), line by line,                                  *)
(*   - the forced-async opcode executor and the two task queues of the     *)
(*     host that its deferred results are delivered through.               *)
(***************************************************************************)
EXTENDS Naturals, Integers, Sequences, FiniteSets, TLC

VARIABLES
    \* ---- createIntegrationTools(phpCorePath, initRuntime, forceOpcodesAsync)
    phase,          \* "unbuilt" | "built" | "threw"
    initRuntime,    \* what the init hook given to createIntegrationTools does
    forceOpcodesAsync,
    nextRuntime,    \* identity of the next object runtimeFactory.create(...) makes
    constructed,    \* log of runtimeFactory.create(mode) calls
    singleton,      \* asyncRuntime / psyncRuntime / syncRuntime
    hooked,         \* runtimes installForcedAsyncOpcodeHook was applied to
    demanded,       \* modes whose shared runtime a caller has used so far
    reads,          \* values seen when reading tools.<mode>Runtime
    returned,       \* log of the values create<Mode>Runtime() returned
    \* ---- transpile / normaliseStack
    modules,        \* modules returned by transpile, in order (identity = index)
    moduleDataMap,  \* module identity -> {sourceMapGenerator, path}
    norm,           \* the latest normaliseStack call
    \* ---- forced-async opcode executor and the host's task queues
    job,            \* number of the run-to-completion job now executing
    turn,           \* number of the macrotask turn now executing
    microQ,         \* pending microtasks (queueMicrotask), FIFO
    macroQ,         \* pending macrotasks (setImmediate), FIFO
    futs,           \* futures created by the executor's factories
    ref,            \* the storage behind the raw reference/variable result
    last,           \* the latest call on the executor or on an accessor
    handled,        \* log of the opcodes executed: what handle() returned
    accessors,      \* accessors execute has returned (by handle() number)
    calls           \* number of calls made on accessors so far

toolsVars == <<phase, initRuntime, forceOpcodesAsync, nextRuntime, constructed,
               singleton, hooked, demanded, reads, returned>>
stackVars == <<modules, moduleDataMap, norm>>
execVars  == <<job, turn, microQ, macroQ, futs, ref, last, handled, accessors,
               calls>>
vars      == <<toolsVars, stackVars, execVars>>

----------------------------------------------------------------------------
(* Bounds *)
MaxCreates == 2     \* explicit create<Mode>Runtime() calls
MaxModules == 2     \* transpile calls
MaxFrames  == 4     \* lines of a stack handed to normaliseStack
MaxExecutes == 2    \* execute(opcode) calls
MaxCalls   == 3     \* calls made on the accessors execute returned

----------------------------------------------------------------------------
(* Runtime factory *)

Modes == <<"async", "psync", "sync">>
ModeSet == {"async", "psync", "sync"}

HookKinds == {"none", "returnsRuntime", "returnsNothing", "returnsShared"}

Undefined     == [tag |-> "undefined", id |-> 0]
SharedRuntime == [tag |-> "shared", id |-> 0]
Runtime(n)    == [tag |-> "runtime", id |-> n]

\* initRuntime(runtime), by the kind of hook the caller supplied.
InitRuntimeResult(hook, runtime) ==
    CASE hook = "returnsRuntime" -> runtime
      [] hook = "returnsNothing" -> Undefined
      [] hook = "returnsShared"  -> SharedRuntime

\* createRuntime(mode): the value it returns, given the runtime the provider made.
CreateRuntimeResult(hook, runtime) ==
    IF hook # "none" THEN InitRuntimeResult(hook, runtime) ELSE runtime

\* The log entry of one runtimeFactory.create(mode) call.
Created(mode, n, hook) == [mode |-> mode, id |-> n, init |-> hook # "none"]

\* runtime.install(...) needs an object: installing on undefined throws.
CanInstall(runtime) == runtime # Undefined


\* Variant: only the async runtime is made up front.
StartupModesAsyncOnly == <<"async">>

\* The runtimes createIntegrationTools(...) itself creates, in order
\* (asyncRuntime, psyncRuntime, syncRuntime).
StartupModes == Modes

\* The value bound to <mode>Runtime by createIntegrationTools: the i-th startup
\* mode gets the i-th runtime the provider makes.
StartupRuntime(hook, first, i) == CreateRuntimeResult(hook, Runtime(first + i - 1))

InitTools ==
    /\ phase = "unbuilt"
    /\ initRuntime = "none"
    /\ forceOpcodesAsync = TRUE
    /\ nextRuntime = 1
    /\ constructed = <<>>
    /\ singleton = [m \in ModeSet |-> Undefined]
    /\ hooked = {}
    /\ demanded = [m \in ModeSet |-> FALSE]
    /\ reads = [m \in ModeSet |-> {}]
    /\ returned = <<>>

\* createIntegrationTools(phpCorePath, initRuntime, forceOpcodesAsync)
CreateIntegrationTools(hook, force) ==
    LET n     == Len(StartupModes)
        value == [i \in 1..n |-> StartupRuntime(hook, nextRuntime, i)]
        made  == [i \in 1..n |->
                    Created(StartupModes[i], nextRuntime + i - 1, hook)
                        @@ [shared |-> TRUE]]
        bound == [m \in ModeSet |->
                    IF \E i \in 1..n : StartupModes[i] = m
                    THEN value[CHOOSE i \in 1..n : StartupModes[i] = m]
                    ELSE Undefined]
        throws == force /\ ~CanInstall(bound["async"])
    IN /\ phase = "unbuilt"
       /\ initRuntime' = hook
       /\ forceOpcodesAsync' = force
       /\ nextRuntime' = nextRuntime + n
       /\ constructed' = constructed \o made
       /\ phase' = IF throws THEN "threw" ELSE "built"
       /\ singleton' = IF throws THEN singleton ELSE bound
       /\ hooked' = IF force /\ ~throws THEN {bound["async"]} ELSE {}
       /\ UNCHANGED <<demanded, reads, returned>>

\* Variant: the property is a getter that makes a runtime on every read.
SingletonReadFresh(m) == CreateRuntimeResult(initRuntime, Runtime(nextRuntime))

\* Reading tools.asyncRuntime / tools.psyncRuntime / tools.syncRuntime.
SingletonRead(m) == singleton[m]

ReadSingleton(m) ==
    /\ phase = "built"
    /\ reads' = [reads EXCEPT ![m] = @ \cup {SingletonRead(m)}]
    /\ demanded' = [demanded EXCEPT ![m] = TRUE]
    /\ UNCHANGED <<phase, initRuntime, forceOpcodesAsync, nextRuntime,
                   constructed, singleton, hooked, returned>>

\* tools.createAsyncRuntime() / createPsyncRuntime() / createSyncRuntime()
CreateRuntime(m) ==
    /\ phase = "built"
    /\ Len(returned) < MaxCreates
    /\ constructed' = Append(constructed,
                             Created(m, nextRuntime, initRuntime)
                                 @@ [shared |-> FALSE])
    /\ returned' = Append(returned,
                          [mode  |-> m,
                           value |-> CreateRuntimeResult(initRuntime,
                                                         Runtime(nextRuntime))])
    /\ nextRuntime' = nextRuntime + 1
    /\ UNCHANGED <<phase, initRuntime, forceOpcodesAsync, singleton, hooked,
                   demanded, reads>>

\* tools.create<Mode>Environment(options, addons): delegates to the shared
\* runtime of that mode (a TypeError when the hook left it undefined).
CreateEnvironment(m) ==
    /\ phase = "built"
    /\ demanded' = [demanded EXCEPT ![m] = TRUE]
    /\ UNCHANGED <<phase, initRuntime, forceOpcodesAsync, nextRuntime,
                   constructed, singleton, hooked, reads, returned>>

----------------------------------------------------------------------------
(* transpile and the module data map *)

\* Source maps the compiler may return: generated line -> original position.
\* Generated line 3 has no mapping in either; MapPartial also lacks line 2.
MapFull    == (1 :> [line |-> 1, column |-> 7]) @@ (2 :> [line |-> 4, column |-> 0])
MapPartial == (1 :> [line |-> 2, column |-> 3])
SourceMaps == {MapFull, MapPartial}

Paths == {"null", "/my/script.php"}

\* A module that no transpile call of this tools object returned.
ForeignModule == 0

\* Variant: the entry is stored whether or not options.sourceMap was set.
TranspileRecordAlways(map, id, wantsSourceMap, generator, path) ==
    map @@ (id :> [sourceMapGenerator |-> generator, path |-> path])

\* moduleDataMap after transpile(...) has produced module `id`.
TranspileRecord(map, id, wantsSourceMap, generator, path) ==
    IF wantsSourceMap
    THEN map @@ (id :> [sourceMapGenerator |-> generator, path |-> path])
    ELSE map

\* moduleDataMap.has(module)
HasModuleData(map, module) == module \in DOMAIN map


----------------------------------------------------------------------------
(* Stack traces, as sequences of lines *)

\* The offset of a Function-constructor frame's line (the comment at the
\* computation says it is currently 2).
ErrorStackLineOffset == 2

Line(k, src, ln, col) == [k |-> k, src |-> src, ln |-> ln, col |-> col]

\* k = "message" : the "Error: ..." head line, or any line no pattern matches
\*     "blank"   : an empty line
\*     "php"     : "at f (eval at transpile (.../phptest/src/createIntegrationTools.js:L:C), <anonymous>:ln:col)"
\*     "mocha"   : a frame whose path holds mochaPath, "<mochaPath>/lib/<src>:ln:col"
\*     "nodeBare": "at f (<src>.js:ln:col)", a platform frame with no directory
\*     "nodeInternal": "at f (node:internal/<src>:ln:col)"
\*     "core"    : "<resolvedPHPCorePath>/src/<src>:ln:col"
\*     "user"    : a frame of the test's own file, "/abs/test/<src>:ln:col"
InputLines ==
    { Line("message", "Error: oops", 0, 0),
      Line("blank", "", 0, 0),
      Line("php", "<anonymous>", 3, 12),
      Line("php", "<anonymous>", 4, 1),
      Line("mocha", "runner.js", 10, 5),
      Line("mocha", "runnable.js", 20, 3),
      Line("nodeBare", "module", 456, 26),
      Line("nodeInternal", "timers", 7, 9),
      Line("core", "Engine.js", 30, 2),
      Line("user", "myTest.js", 8, 4) }

RECURSIVE SeqsUpTo(_, _)
SeqsUpTo(S, n) ==
    IF n = 0 THEN {<<>>}
    ELSE LET shorter == SeqsUpTo(S, n - 1)
         IN shorter \cup {Append(t, x) : t \in shorter, x \in S}

Stacks == SeqsUpTo(InputLines, MaxFrames)

\* sourceMapConsumer.originalPositionFor({line: line - errorStackLineOffset,
\* column: column * 1}): nulls when the generated position has no mapping.
NullPosition == [source |-> "null", line |-> -1, column |-> -1]
OriginalPositionFor(data, line, column) ==
    LET generated == line - ErrorStackLineOffset
    IN IF generated \in DOMAIN data.sourceMapGenerator
       THEN [source |-> data.path,
             line   |-> data.sourceMapGenerator[generated].line,
             column |-> data.sourceMapGenerator[generated].column]
       ELSE NullPosition

\* The test of the replacer: both line and column null.
Unmappable(position) == position.line = -1 /\ position.column = -1

\* The replacer's result for one transpiled-PHP frame:
\* "(<source>:<line>:<column>)".
MappedFrame(position) == Line("mapped", position.source, position.line, position.column)

\* Variant: a frame that cannot be mapped is left as it is.
MapFramesBestEffort(stack, data) ==
    [ok |-> TRUE,
     stack |-> [i \in 1..Len(stack) |->
                   IF /\ stack[i].k = "php"
                      /\ ~Unmappable(OriginalPositionFor(data, stack[i].ln, stack[i].col))
                   THEN MappedFrame(OriginalPositionFor(data, stack[i].ln, stack[i].col))
                   ELSE stack[i]]]

\* stack.replace(/\(eval at transpile ...\)/g, replacer): the replacer throws at
\* the first frame that cannot be mapped, which abandons the whole replace.
RECURSIVE MapFrames(_, _)
MapFrames(stack, data) ==
    IF stack = <<>> THEN [ok |-> TRUE, stack |-> <<>>]
    ELSE LET line == Head(stack)
             position == OriginalPositionFor(data, line.ln, line.col)
         IN IF line.k = "php" /\ Unmappable(position)
            THEN [ok |-> FALSE, stack |-> <<>>]
            ELSE LET rest == MapFrames(Tail(stack), data)
                 IN IF ~rest.ok THEN rest
                    ELSE [ok |-> TRUE,
                          stack |-> <<IF line.k = "php" THEN MappedFrame(position)
                                      ELSE line>> \o rest.stack]

\* '$1/path/to/mocha$2??:??' for every line holding mochaPath and ":<d>:<d>".
NormaliseMochaFrame(line) ==
    IF line.k = "mocha" THEN Line("mochaPath", line.src, 0, 0) ELSE line

\* '$1$3/path/to/internal/$2$4:??:??' for both forms of platform frame.
NormaliseNodeFrame(line) ==
    IF line.k \in {"nodeBare", "nodeInternal"}
    THEN Line("internalPath", line.src, 0, 0)
    ELSE line

\* resolvedPHPCorePath -> '/path/to/phpcore', line and column kept.
NormalisePHPCoreFrame(line) ==
    IF line.k = "core" THEN Line("corePath", line.src, line.ln, line.col) ELSE line

\* The maximal prefix of blank lines of s: what ([\r\n]*) takes after a line.
RECURSIVE LeadingBlanks(_)
LeadingBlanks(s) ==
    IF s # <<>> /\ Head(s).k = "blank"
    THEN <<Head(s)>> \o LeadingBlanks(Tail(s))
    ELSE <<>>

\* One match of /(?:(?:.*<placeholder>.*)([\r\n]*))+/ whose first line has just
\* been taken; s is what follows it. Each repetition takes one placeholder line
\* and the line ends after it; the capture is that of the last repetition.
RECURSIVE RestOfGroup(_, _)
RestOfGroup(s, k) ==
    LET blanks == LeadingBlanks(s)
        after  == SubSeq(s, Len(blanks) + 1, Len(s))
    IN IF after # <<>> /\ Head(after).k = k
       THEN RestOfGroup(Tail(after), k)
       ELSE [capture |-> blanks, rest |-> after]

\* stack.replace(/(?:(?:.*<placeholder>.*)([\r\n]*))+/mg, '    at [<marker>]$1')
RECURSIVE GroupFrames(_, _, _)
GroupFrames(s, k, marker) ==
    IF s = <<>> THEN <<>>
    ELSE IF Head(s).k = k
         THEN LET m == RestOfGroup(Tail(s), k)
              IN <<marker>> \o m.capture \o GroupFrames(m.rest, k, marker)
         ELSE <<Head(s)>> \o GroupFrames(Tail(s), k, marker)

MochaMarker == Line("marker", "[Mocha internals]", 0, 0)
NodeMarker  == Line("marker", "[Node.js internals]", 0, 0)

\* Variant: every Mocha frame becomes a marker of its own.
GroupMochaFramesOneByOne(s) ==
    [i \in 1..Len(s) |-> IF s[i].k = "mochaPath" THEN MochaMarker ELSE s[i]]

GroupMochaFrames(s) == GroupFrames(s, "mochaPath", MochaMarker)
GroupNodeFrames(s)  == GroupFrames(s, "internalPath", NodeMarker)

\* The steps of the .then callback after the source mapping.
ScrubFrames(stack) ==
    LET mocha   == [i \in 1..Len(stack) |-> NormaliseMochaFrame(stack[i])]
        grouped == GroupMochaFrames(mocha)
        node    == [i \in 1..Len(grouped) |-> NormaliseNodeFrame(grouped[i])]
        folded  == GroupNodeFrames(node)
    IN [i \in 1..Len(folded) |-> NormalisePHPCoreFrame(folded[i])]

\* The .then callback as a whole: the text it returns, or the error it throws.
NormalisedStack(stack, data) ==
    LET mapped == MapFrames(stack, data)
    IN IF mapped.ok
       THEN [st |-> "fulfilled", out |-> ScrubFrames(mapped.stack), err |-> "none"]
       ELSE [st |-> "rejected", out |-> <<>>, err |-> "mapping"]

NoData == [sourceMapGenerator |-> <<>>, path |-> "null"]
NoNorm == [st |-> "none", module |-> ForeignModule, stack |-> <<>>, data |-> NoData,
           out |-> <<>>, err |-> "none"]

InitStack ==
    /\ modules = <<>>
    /\ moduleDataMap = <<>>
    /\ norm = NoNorm

\* tools.asyncTranspile / psyncTranspile / syncTranspile(path, php, options)
\* with options.sourceMap given or not.
Transpile(m, path, wantsSourceMap, generator) ==
    LET id == Len(modules) + 1
    IN /\ phase = "built"
       /\ Len(modules) < MaxModules
       /\ singleton[m] # Undefined
       /\ modules' = Append(modules, [runtime |-> singleton[m], path |-> path,
                                      sourceMap |-> wantsSourceMap])
       /\ moduleDataMap' = TranspileRecord(moduleDataMap, id, wantsSourceMap,
                                           generator, path)
       /\ demanded' = [demanded EXCEPT ![m] = TRUE]
       /\ UNCHANGED <<phase, initRuntime, forceOpcodesAsync, nextRuntime,
                      constructed, singleton, hooked, reads, returned, norm>>

\* tools.normaliseStack(stack, module), up to the promise it returns.
NormaliseStack(stack, module) ==
    /\ phase = "built"
    /\ norm' = IF ~HasModuleData(moduleDataMap, module)
               THEN [NoNorm EXCEPT !.st = "threw", !.module = module,
                                   !.stack = stack, !.err = "usage"]
               ELSE [NoNorm EXCEPT !.st = "pending", !.module = module,
                                   !.stack = stack,
                                   !.data = moduleDataMap[module]]
    /\ UNCHANGED <<toolsVars, modules, moduleDataMap>>

\* The .then(function (sourceMapConsumer) {...}) callback of normaliseStack.
SourceMapConsumerThen ==
    /\ norm.st = "pending"
    /\ LET r == NormalisedStack(norm.stack, norm.data)
       IN norm' = [norm EXCEPT !.st = r.st, !.out = r.out, !.err = r.err]
    /\ UNCHANGED <<toolsVars, modules, moduleDataMap>>


----------------------------------------------------------------------------
(* The forced-async opcode executor *)

Vals == {"v1", "v2"}
Targets == {"r1", "r2"}

\* What opcode.handle() may return.
RawKinds == {"fulfilledFuture", "rejectedFuture", "pendingFuture", "value",
             "reference", "variable", "other"}
CarriesValue(kind) == kind \in {"fulfilledFuture", "rejectedFuture", "value"}

\* Object identities: the n-th handle() result, the i-th future a factory made,
\* the accessor made around the n-th handle() result, or plain data.
Ref(tag, n, val) == [tag |-> tag, n |-> n, val |-> val]
Handled(n)   == Ref("handled", n, "")
Future(i)    == Ref("future", i, "")
Accessor(n)  == Ref("accessor", n, "")
Data(val)    == Ref("data", 0, val)

Payload(kind, val) == [kind |-> kind, val |-> val]

\* controlBridge.isFuture(result) && result.isSettled()
IsSettledFuture(kind) == kind \in {"fulfilledFuture", "rejectedFuture"}
\* result instanceof Value
IsValue(kind) == kind = "value"
\* result instanceof Reference || result instanceof Variable
IsReferenceLike(kind) == kind \in {"reference", "variable"}

\* Variant: the isTraced() test is missing.
ExecutePlanIgnoringTrace(traced, kind) ==
    IF IsSettledFuture(kind) THEN "futureAsyncPresent"
    ELSE IF IsValue(kind) THEN "valueAsyncPresent"
    ELSE IF IsReferenceLike(kind) THEN "accessor"
    ELSE "result"

\* Variant: settled futures are returned as they are.
ExecutePlanFuturesUntouched(traced, kind) ==
    IF ~traced THEN "result"
    ELSE IF IsValue(kind) THEN "valueAsyncPresent"
    ELSE IF IsReferenceLike(kind) THEN "accessor"
    ELSE "result"

\* AsyncOpcodeExecutor.prototype.execute: which return statement is taken.
ExecutePlan(traced, kind) ==
    IF ~traced THEN "result"
    ELSE IF IsSettledFuture(kind) THEN "futureAsyncPresent"
    ELSE IF IsValue(kind) THEN "valueAsyncPresent"
    ELSE IF IsReferenceLike(kind) THEN "accessor"
    ELSE "result"

\* Variant: createAsyncPresent is called without the result.
ExecutePresentNothing(kind, val) == Payload(kind, "undefined")

\* What execute hands to createAsyncPresent: the result itself.
ExecutePresent(kind, val) == Payload(kind, val)

\* A future settling with what it was resolved with: another settled future
\* passes its own outcome on, anything else is the fulfilment value.
Settlement(payload) ==
    IF payload.kind = "rejectedFuture"
    THEN [st |-> "rejected", val |-> payload.val]
    ELSE [st |-> "fulfilled", val |-> payload.val]

\* A pending future as createAsyncPresent / createAsyncMicrotaskFuture return it.
NewFuture(via, cap, call) ==
    [st |-> "pending", val |-> "", born |-> job, done |-> 0,
     via |-> via, cap |-> cap, call |-> call, seq |-> 0]

\* Variant: a new task goes in front of the queued ones.
EnqueueFirst(queue, task) == <<task>> \o queue

\* setImmediate(callback) / queueMicrotask(callback): behind what is queued.
Enqueue(queue, task) == Append(queue, task)

Task(fut, op, arg, payload) == [fut |-> fut, op |-> op, arg |-> arg, payload |-> payload]

----------------------------------------------------------------------------
(* The raw reference or variable behind an accessor *)

Truth(b) == IF b THEN "true" ELSE "false"

\* result.<op>(arg) on the raw reference with storage r: what it returns and
\* the storage afterwards. Every operation completes synchronously.
RawOp(op, arg, r) ==
    CASE op = "getValue" ->
            [ret |-> Payload("value", IF r.value = "unset" THEN "null" ELSE r.value), ref |-> r]
      [] op = "setValue" ->
            [ret |-> Payload("fulfilledFuture", arg), ref |-> [r EXCEPT !.value = arg]]
      [] op = "unset" ->
            [ret |-> Payload("fulfilledFuture", "null"), ref |-> [r EXCEPT !.value = "unset"]]
      [] op = "getReference" ->
            [ret |-> Payload("data", r.target), ref |-> r]
      [] op = "setReference" ->
            [ret |-> Payload("data", "undefined"), ref |-> [r EXCEPT !.target = arg]]
      [] op = "clearReference" ->
            [ret |-> Payload("data", "undefined"), ref |-> [r EXCEPT !.target = "none"]]
      [] op = "isDefined" ->
            [ret |-> Payload("data", Truth(r.value # "unset")), ref |-> r]
      [] op = "isReadable" ->
            [ret |-> Payload("data", Truth(r.value # "unset")), ref |-> r]
      [] op = "isEmpty" ->
            [ret |-> Payload("fulfilledFuture", Truth(r.value = "unset")), ref |-> r]
      [] op = "isSet" ->
            [ret |-> Payload("fulfilledFuture", Truth(r.value # "unset")), ref |-> r]
      [] op = "isReference" ->
            [ret |-> Payload("data", Truth(r.target # "none")), ref |-> r]
      [] op = "raiseUndefined" ->
            [ret |-> Payload("value", "null"), ref |-> r]

Capabilities == {"getValue", "setValue", "unset", "getReference", "setReference",
                 "clearReference", "isDefined", "isReadable", "isEmpty", "isSet",
                 "isReference", "raiseUndefined"}

ArgsOf(op) ==
    CASE op = "setValue" -> Vals
      [] op = "setReference" -> Targets
      [] OTHER -> {"none"}

\* Variant: unset is deferred the way setValue is.
AccessorPlanUnsetMicrotask(op) ==
    CASE op \in {"setValue", "unset"} -> "asyncMicrotask"
      [] op \in {"getValue", "isEmpty", "isSet", "raiseUndefined"} -> "asyncPresent"
      [] OTHER -> "sync"

\* Variant: isEmpty and isSet pass straight through like isDefined.
AccessorPlanChecksInline(op) ==
    CASE op = "getValue"       -> "asyncPresent"
      [] op = "setValue"       -> "asyncMicrotask"
      [] op = "unset"          -> "asyncPresent"
      [] op = "raiseUndefined" -> "asyncPresent"
      [] OTHER                 -> "sync"

\* The twelve callbacks handed to referenceFactory.createAccessor(...):
\* how each delivers its result.
AccessorPlan(op) ==
    CASE op = "getValue"       -> "asyncPresent"
      [] op = "setValue"       -> "asyncMicrotask"
      [] op = "unset"          -> "asyncPresent"
      [] op = "getReference"   -> "sync"
      [] op = "setReference"   -> "sync"
      [] op = "clearReference" -> "sync"
      [] op = "isDefined"      -> "sync"
      [] op = "isReadable"     -> "sync"
      [] op = "isEmpty"        -> "asyncPresent"
      [] op = "isSet"          -> "asyncPresent"
      [] op = "isReference"    -> "sync"
      [] op = "raiseUndefined" -> "asyncPresent"

\* A callback that passes straight through to the raw result.
AccessorSync(op, arg, r) == RawOp(op, arg, r)


----------------------------------------------------------------------------
(* Calls and the host's scheduling *)

NoPayload == Payload("none", "")
NoCall == [op |-> "none", arg |-> "none", traced |-> FALSE, kind |-> "none",
           val |-> "", raw |-> Data(""), ret |-> Data(""), job |-> 0,
           queued |-> 0, made |-> 0, before |-> [value |-> "", target |-> ""],
           after |-> [value |-> "", target |-> ""]]

Storages == [value : {"v1", "unset"}, target : {"none", "r1"}]

InitExec ==
    /\ job = 1
    /\ turn = 1
    /\ microQ = <<>>
    /\ macroQ = <<>>
    /\ futs = <<>>
    /\ ref = [value |-> "v1", target |-> "none"]
    /\ last = NoCall
    /\ handled = <<>>
    /\ accessors = {}
    /\ calls = 0

\* executor.execute(opcode), where opcode.isTraced() = traced and
\* opcode.handle() returns a result of the given kind (carrying val).
Execute(traced, kind, val) ==
    LET n    == Len(handled) + 1
        plan == ExecutePlan(traced, kind)
        f    == Len(futs) + 1
        present == ExecutePresent(kind, val)
        defers  == plan \in {"futureAsyncPresent", "valueAsyncPresent"}
    IN /\ Len(handled) < MaxExecutes
       /\ handled' = Append(handled, [traced |-> traced, kind |-> kind, val |-> val])
       /\ futs' = IF defers
                  THEN Append(futs, NewFuture("macro", "execute", n))
                  ELSE futs
       /\ macroQ' = IF defers
                    THEN Enqueue(macroQ, Task(f, "resolve", "none", present))
                    ELSE macroQ
       /\ accessors' = IF plan = "accessor" THEN accessors \cup {n} ELSE accessors
       /\ last' = [NoCall EXCEPT
                     !.op = "execute", !.traced = traced, !.kind = kind,
                     !.val = val, !.raw = Handled(n), !.job = job,
                     !.ret = CASE defers -> Future(f)
                               [] plan = "accessor" -> Accessor(n)
                               [] OTHER -> Handled(n),
                     !.queued = Len(macroQ') - Len(macroQ),
                     !.made = Len(futs') - Len(futs),
                     !.before = ref, !.after = ref]
       /\ UNCHANGED <<job, turn, microQ, ref, calls>>

\* accessor.<op>(arg) on an accessor execute returned.
AccessorCall(op, arg) ==
    LET plan == AccessorPlan(op)
        f    == Len(futs) + 1
        now  == IF plan = "sync" THEN AccessorSync(op, arg, ref)
                ELSE RawOp(op, arg, ref)
    IN /\ accessors # {}
       /\ calls < MaxCalls
       /\ calls' = calls + 1
       /\ ref' = IF plan = "asyncMicrotask" THEN ref ELSE now.ref
       /\ futs' = CASE plan = "asyncPresent" ->
                        Append(futs, NewFuture("macro", op, calls + 1))
                    [] plan = "asyncMicrotask" ->
                        Append(futs, NewFuture("micro", op, calls + 1))
                    [] OTHER -> futs
       /\ macroQ' = IF plan = "asyncPresent"
                    THEN Enqueue(macroQ, Task(f, "resolve", "none", now.ret))
                    ELSE macroQ
       /\ microQ' = IF plan = "asyncMicrotask"
                    THEN Enqueue(microQ, Task(f, op, arg, NoPayload))
                    ELSE microQ
       /\ last' = [NoCall EXCEPT
                     !.op = op, !.arg = arg, !.traced = TRUE, !.kind = "reference",
                     !.job = job,
                     !.ret = IF plan = "sync" THEN Data(now.ret.val) ELSE Future(f),
                     !.queued = (Len(macroQ') + Len(microQ'))
                                    - (Len(macroQ) + Len(microQ)),
                     !.made = Len(futs') - Len(futs),
                     !.before = ref, !.after = ref']
       /\ UNCHANGED <<job, turn, handled, accessors>>

Settled == {i \in 1..Len(futs) : futs[i].st # "pending"}

\* The future of a task settling in the job that is starting.
Settle(f, payload) ==
    [futs EXCEPT ![f] = [@ EXCEPT !.st = Settlement(payload).st,
                                  !.val = Settlement(payload).val,
                                  !.done = job + 1,
                                  !.seq = Cardinality(Settled) + 1]]

\* The host runs the oldest setImmediate callback: resolve(value). It does so
\* only once no microtask is left.
RunMacrotask ==
    /\ macroQ # <<>>
    /\ microQ = <<>>
    /\ job' = job + 1
    /\ turn' = turn + 1
    /\ futs' = Settle(Head(macroQ).fut, Head(macroQ).payload)
    /\ macroQ' = Tail(macroQ)
    /\ UNCHANGED <<microQ, ref, last, handled, accessors, calls>>

\* The host runs the oldest queueMicrotask callback:
\* result.setValue(value).next(resolve, reject).
RunMicrotask ==
    /\ microQ # <<>>
    /\ LET t == Head(microQ)
           r == RawOp(t.op, t.arg, ref)
       IN /\ ref' = r.ref
          /\ futs' = Settle(t.fut, r.ret)
    /\ job' = job + 1
    /\ microQ' = Tail(microQ)
    /\ UNCHANGED <<turn, macroQ, last, handled, accessors, calls>>

----------------------------------------------------------------------------
(* Specifications *)

\* The tools object: its construction, the shared runtimes and the explicit
\* create operations; transpile appears as a user of the shared runtimes.
NextRuntimes ==
    \/ \E hook \in HookKinds, force \in BOOLEAN :
          CreateIntegrationTools(hook, force) /\ UNCHANGED <<stackVars, execVars>>
    \/ \E m \in ModeSet : ReadSingleton(m) /\ UNCHANGED <<stackVars, execVars>>
    \/ \E m \in ModeSet : CreateRuntime(m) /\ UNCHANGED <<stackVars, execVars>>
    \/ \E m \in ModeSet : CreateEnvironment(m) /\ UNCHANGED <<stackVars, execVars>>
    \/ \E m \in ModeSet, wants \in BOOLEAN :
          Transpile(m, "/my/script.php", wants, MapFull) /\ UNCHANGED execVars

\* Before createIntegrationTools is called.
InitRuntimes == InitTools /\ InitStack /\ InitExec

SpecRuntimes == InitRuntimes /\ [][NextRuntimes]_vars

\* The state createIntegrationTools(phpCorePath) leaves behind: no init hook,
\* opcodes forced async.
BuiltTools ==
    /\ phase = "built"
    /\ initRuntime = "none"
    /\ forceOpcodesAsync = TRUE
    /\ nextRuntime = Len(StartupModes) + 1
    /\ constructed = [i \in 1..Len(StartupModes) |->
                        Created(StartupModes[i], i, "none") @@ [shared |-> TRUE]]
    /\ singleton = [m \in ModeSet |->
                      Runtime(CHOOSE i \in 1..Len(StartupModes) : StartupModes[i] = m)]
    /\ hooked = {Runtime(1)}
    /\ demanded = [m \in ModeSet |-> FALSE]
    /\ reads = [m \in ModeSet |-> {}]
    /\ returned = <<>>

\* Transpiling with and without source maps, and normalising against the
\* modules that came out of it (or against a module from elsewhere).
NextModules ==
    \/ \E path \in Paths, wants \in BOOLEAN, g \in SourceMaps :
          Transpile("async", path, wants, g) /\ UNCHANGED execVars
    \/ /\ norm.st # "pending"
       /\ \E stack \in SeqsUpTo(InputLines, 1),
             module \in (1..Len(modules)) \cup {ForeignModule} :
             NormaliseStack(stack, module) /\ UNCHANGED execVars
    \/ SourceMapConsumerThen /\ UNCHANGED execVars

\* A tools object just built: nothing transpiled yet.
InitModules == BuiltTools /\ InitStack /\ InitExec

SpecModules == InitModules /\ [][NextModules]_vars

\* Two modules transpiled with source maps: one whose map covers the generated
\* lines 1 and 2, one whose map covers line 1 only.
TranspiledModules ==
    /\ modules = << [runtime |-> Runtime(1), path |-> "/my/script.php", sourceMap |-> TRUE],
                    [runtime |-> Runtime(1), path |-> "/my/script.php", sourceMap |-> TRUE] >>
    /\ moduleDataMap =
          TranspileRecord(
              TranspileRecord(<<>>, 1, TRUE, MapFull, "/my/script.php"),
              2, TRUE, MapPartial, "/my/script.php")
    /\ norm = NoNorm

\* Normalising every stack of up to MaxFrames lines against those modules.
NextStack ==
    \/ /\ norm.st = "none"
       /\ \E stack \in Stacks, module \in 1..Len(modules) :
             NormaliseStack(stack, module) /\ UNCHANGED execVars
    \/ SourceMapConsumerThen /\ UNCHANGED execVars

InitNormalise == BuiltTools /\ TranspiledModules /\ InitExec

SpecStack == InitNormalise /\ [][NextStack]_vars

\* The executor alone: opcodes of every kind, traced or not.
NextExec ==
    \/ \E traced \in BOOLEAN, kind \in RawKinds,
          val \in Vals :
          /\ (CarriesValue(kind) \/ val = "v1")
          /\ Execute(traced, kind, val)
          /\ UNCHANGED <<toolsVars, stackVars>>
    \/ RunMacrotask /\ UNCHANGED <<toolsVars, stackVars>>

\* A tools object just built, its executor not yet called.
InitExecutor == BuiltTools /\ InitStack /\ InitExec

SpecExec == InitExecutor /\ [][NextExec]_vars

\* The state after execute returned an accessor for a traced opcode whose
\* result was a reference.
InitAccessor ==
    /\ job = 1
    /\ turn = 1
    /\ microQ = <<>>
    /\ macroQ = <<>>
    /\ futs = <<>>
    /\ ref \in Storages
    /\ last = [NoCall EXCEPT !.op = "execute", !.traced = TRUE,
                             !.kind = "reference", !.raw = Handled(1),
                             !.job = 1, !.ret = Accessor(1),
                             !.before = ref, !.after = ref]
    /\ handled = <<[traced |-> TRUE, kind |-> "reference", val |-> "v1"]>>
    /\ accessors = {1}
    /\ calls = 0

\* Calls on the accessor, interleaved with the host running queued tasks.
NextAccessor ==
    \/ \E op \in Capabilities : \E arg \in ArgsOf(op) :
          AccessorCall(op, arg) /\ UNCHANGED <<toolsVars, stackVars>>
    \/ RunMicrotask /\ UNCHANGED <<toolsVars, stackVars>>
    \/ RunMacrotask /\ UNCHANGED <<toolsVars, stackVars>>

InitAccessorCalls == BuiltTools /\ InitStack /\ InitAccessor

SpecAccessor == InitAccessorCalls /\ [][NextAccessor]_vars


----------------------------------------------------------------------------
(* Properties of normaliseStack *)

Positions(s, k) == {i \in 1..Len(s) : s[i].k = k}
Count(s, k) == Cardinality(Positions(s, k))
OnlyKinds(s, kinds) == SelectSeq(s, LAMBDA l : l.k \in kinds)

\* Where a maximal run of consecutive Mocha frames starts: a Mocha frame with no
\* Mocha frame as the frame before it (empty lines are not frames).
MochaRunStarts(stack) ==
    {i \in Positions(stack, "mocha") :
        ~\E j \in 1..(i - 1) :
            /\ stack[j].k = "mocha"
            /\ \A h \in (j + 1)..(i - 1) : stack[h].k = "blank"}

MochaMarkers(out) == {i \in 1..Len(out) : out[i] = MochaMarker}

\* C7: in the text normaliseStack delivers, every maximal run of consecutive
\* Mocha frames of the input stands as exactly one '[Mocha internals]' line,
\* however long the run, no Mocha frame is left, and the lines that are neither
\* Mocha nor platform frames are all still there, in their order.
C7_OneMarkerPerMochaRun ==
    norm.st = "fulfilled" =>
        /\ Cardinality(MochaMarkers(norm.out)) = Cardinality(MochaRunStarts(norm.stack))
        /\ Count(norm.out, "mocha") = 0
        /\ Count(norm.out, "mochaPath") = 0
        /\ OnlyKinds(norm.out, {"message", "user"})
              = OnlyKinds(norm.stack, {"message", "user"})
        /\ Count(norm.out, "mapped") = Count(norm.stack, "php")
        /\ Count(norm.out, "corePath") = Count(norm.stack, "core")

\* A stack with a run of two Mocha frames, another frame, and a second run.
C7_Witness ==
    /\ norm.st = "fulfilled"
    /\ Count(norm.stack, "mocha") = 3
    /\ Cardinality(MochaRunStarts(norm.stack)) = 2
    /\ Count(norm.stack, "user") = 1
    /\ Cardinality(MochaMarkers(norm.out)) = 2

\* A transpiled-PHP frame whose generated position the module's source map
\* does not cover.
UnmappedFrames(stack, data) ==
    {i \in Positions(stack, "php") :
        (stack[i].ln - ErrorStackLineOffset) \notin DOMAIN data.sourceMapGenerator}

\* C8: when some transpiled-PHP frame of the stack has no original position,
\* the promise of normaliseStack is rejected with the mapping error and carries
\* no text at all; a delivered text holds no transpiled-PHP frame that was left
\* unmapped.
C8_UnmappableFrameRejects ==
    norm.st \in {"fulfilled", "rejected"} =>
        /\ UnmappedFrames(norm.stack, norm.data) # {}
              => norm.st = "rejected" /\ norm.err = "mapping" /\ norm.out = <<>>
        /\ norm.st = "fulfilled"
              => /\ Count(norm.out, "php") = 0
                 /\ Count(norm.out, "mapped") = Count(norm.stack, "php")
                 /\ norm.err = "none"

\* The unmappable frame comes after a frame that could be mapped.
C8_Witness ==
    /\ norm.st = "rejected"
    /\ Len(norm.stack) >= 2
    /\ norm.stack[1].k = "php"
    /\ 1 \notin UnmappedFrames(norm.stack, norm.data)
    /\ 2 \in UnmappedFrames(norm.stack, norm.data)


----------------------------------------------------------------------------
(* Properties of the module data map *)

Transpiled == 1..Len(modules)

\* C6: normaliseStack with a module that has no entry in the module data map
\* throws the usage error and yields no text; a module is in the map exactly
\* when the transpile call that returned it had options.sourceMap set, so the
\* usage error is never raised for such a module; and no normaliseStack call,
\* failing or not, changes the map.
C6_State ==
    /\ \A m \in Transpiled : modules[m].sourceMap <=> HasModuleData(moduleDataMap, m)
    /\ ~HasModuleData(moduleDataMap, ForeignModule)
    /\ norm.st # "none" =>
          /\ ~HasModuleData(moduleDataMap, norm.module)
                => norm.st = "threw" /\ norm.err = "usage" /\ norm.out = <<>>
          /\ (norm.module \in Transpiled /\ modules[norm.module].sourceMap)
                => norm.st # "threw" /\ norm.err # "usage"

\* C6 as a whole: the state part above in every state, and the module data map
\* left as it was by every step that makes or completes a normaliseStack call.
C6_MissingEntryIsUsageError ==
    /\ []C6_State
    /\ [][norm' # norm => moduleDataMap' = moduleDataMap]_vars

\* A module transpiled without source maps is refused while another module
\* of the same tools object has its entry.
C6_Witness ==
    /\ norm.st = "threw"
    /\ norm.module \in Transpiled
    /\ \E m \in Transpiled : HasModuleData(moduleDataMap, m)

----------------------------------------------------------------------------
(* Properties of the runtime factory *)

Returned == 1..Len(returned)
SingletonValues == {singleton[m] : m \in ModeSet}

\* Every read of a shared runtime gives the one value bound at construction.
ReadsAgree == \A m \in ModeSet : reads[m] \subseteq {singleton[m]}

\* Every explicit create call gave a value that is neither a shared runtime
\* nor the value of an earlier create call.
CreatesDistinct ==
    \A i \in Returned :
        /\ returned[i].value \notin SingletonValues
        /\ \A j \in 1..(i - 1) : returned[j].value # returned[i].value

SharedEntries(m) == {i \in 1..Len(constructed) :
                        constructed[i].shared /\ constructed[i].mode = m}

\* C10 as stated: the shared runtime of a mode is constructed only once that
\* mode has been demanded.
C10_Original ==
    \A m \in ModeSet : SharedEntries(m) # {} => demanded[m]

\* C10, amended: createIntegrationTools itself constructs the three shared
\* runtimes, async, psync, sync in that order, each passed through the init
\* hook when one was given, whether or not a mode is ever demanded; nothing
\* constructs a shared runtime before or after that.
C10_SharedRuntimesBuiltAtConstruction ==
    /\ phase = "unbuilt" => constructed = <<>>
    /\ phase # "unbuilt" =>
          /\ Len(constructed) >= Len(Modes)
          /\ \A i \in 1..Len(Modes) :
                /\ constructed[i].mode = Modes[i]
                /\ constructed[i].init = (initRuntime # "none")
          /\ \A m \in ModeSet : Cardinality(SharedEntries(m)) = 1
          /\ \A i \in 1..Len(constructed) : constructed[i].shared <=> i <= Len(Modes)

\* The tools object exists, nothing has been demanded, and the three runtimes
\* are there.
C10_Witness ==
    /\ phase = "built"
    /\ \A m \in ModeSet : ~demanded[m] /\ SharedEntries(m) # {}


----------------------------------------------------------------------------
(* Properties of the forced-async executor *)

Futures == 1..Len(futs)
TaskQueued(queue, f) == \E t \in 1..Len(queue) : queue[t].fut = f

\* The futures execute made for the opcodes whose handle() result was of one
\* of the given kinds.
MadeByExecute(kinds) ==
    {f \in Futures : futs[f].cap = "execute" /\ handled[futs[f].call].kind \in kinds}

\* A future made in an earlier job than it settles in, still pending throughout
\* the job that made it, and waiting in the given queue while pending.
Deferred(f, queue) ==
    /\ job = futs[f].born => futs[f].st = "pending"
    /\ futs[f].st = "pending" => TaskQueued(queue, f)
    /\ futs[f].st # "pending" => futs[f].done > futs[f].born

\* C1: for an untraced opcode execute returns the very object handle()
\* returned, whatever its kind, makes no future and queues nothing.
C1_UntracedReturnsRawResult ==
    (last.op = "execute" /\ ~last.traced) =>
        /\ last.ret = last.raw
        /\ last.queued = 0
        /\ last.made = 0

\* An untraced opcode whose result is a settled future.
C1_Witness ==
    /\ last.op = "execute"
    /\ ~last.traced
    /\ last.kind = "rejectedFuture"
    /\ last.ret = Handled(Len(handled))

\* C2: for a traced opcode whose result is a settled future, execute returns a
\* new future, pending for the rest of the job that called execute; it stays
\* queued for a later turn and settles there as the original had: fulfilled with
\* the same value, or rejected with the same error.
C2_SettledFutureRewrappedLater ==
    /\ (last.op = "execute" /\ last.traced /\ IsSettledFuture(last.kind)) =>
          /\ last.ret.tag = "future"
          /\ last.ret \in {Future(f) : f \in MadeByExecute({last.kind})}
          /\ last.made = 1
          /\ futs[last.ret.n].born = last.job
          /\ futs[last.ret.n].call = Len(handled)
    /\ \A f \in MadeByExecute({"fulfilledFuture", "rejectedFuture"}) :
          /\ Deferred(f, macroQ)
          /\ futs[f].st # "pending" =>
                /\ futs[f].val = handled[futs[f].call].val
                /\ futs[f].st = IF handled[futs[f].call].kind = "fulfilledFuture"
                                THEN "fulfilled" ELSE "rejected"

\* Both a fulfilled and a rejected original have been rewrapped and have settled.
C2_Witness ==
    /\ \E f \in MadeByExecute({"rejectedFuture"}) :
          futs[f].st = "rejected" /\ futs[f].val = "v2"
    /\ \E f \in MadeByExecute({"fulfilledFuture"}) : futs[f].st = "fulfilled"

\* C4: for a traced opcode whose result is a plain value v, execute returns a
\* future that is pending for the rest of the job that made it and is fulfilled
\* later with exactly v, never rejected.
C4_PlainValueDeferredUnchanged ==
    /\ (last.op = "execute" /\ last.traced /\ last.kind = "value") =>
          /\ last.ret.tag = "future"
          /\ last.ret \in {Future(f) : f \in MadeByExecute({"value"})}
          /\ futs[last.ret.n].born = last.job
          /\ futs[last.ret.n].call = Len(handled)
    /\ \A f \in MadeByExecute({"value"}) :
          /\ Deferred(f, macroQ)
          /\ futs[f].st # "pending" =>
                /\ futs[f].st = "fulfilled"
                /\ futs[f].val = handled[futs[f].call].val

\* Two different plain values, both delivered.
C4_Witness ==
    \E f, g \in MadeByExecute({"value"}) :
        /\ futs[f].st = "fulfilled" /\ futs[f].val = "v1"
        /\ futs[g].st = "fulfilled" /\ futs[g].val = "v2"

----------------------------------------------------------------------------
(* Properties of the accessor *)

Structural == {"getReference", "setReference", "clearReference", "isReference"}
ValueOrMutating == {"getValue", "setValue", "unset", "isDefined", "isReadable",
                    "isEmpty", "isSet", "raiseUndefined"}
SynchronousChecks == {"isDefined", "isReadable"}

\* The latest call was one of ops and went straight through to the raw result:
\* same data back, same storage afterwards, nothing queued.
PassedThrough(ops) ==
    last.op \in ops =>
        /\ last.ret = Data(RawOp(last.op, last.arg, last.before).ret.val)
        /\ last.after = RawOp(last.op, last.arg, last.before).ref
        /\ last.queued = 0
        /\ last.made = 0

\* The latest call was one of ops and gave a future of its own back, and every
\* future of such a call settles in a later job than the call's.
CompletedLater(ops) ==
    /\ last.op \in ops =>
          /\ last.ret.tag = "future"
          /\ last.made = 1
          /\ last.ret.n = Len(futs)
          /\ futs[last.ret.n].cap = last.op
          /\ futs[last.ret.n].born = last.job
    /\ \A f \in Futures :
          futs[f].cap \in ops =>
              Deferred(f, IF futs[f].via = "micro" THEN microQ ELSE macroQ)
    /\ \A f \in Futures : futs[f].cap \in Capabilities => futs[f].cap \in ops

\* C3 as stated: the four structural capabilities are synchronous
\* pass-throughs, and getValue, setValue, unset, the defined / readable /
\* empty / set checks and raiseUndefined all complete on a later tick.
C3_Original == PassedThrough(Structural) /\ CompletedLater(ValueOrMutating)

\* C3, amended: isDefined and isReadable are synchronous pass-throughs like the
\* four structural capabilities; getValue, setValue, unset, isEmpty, isSet and
\* raiseUndefined complete on a later tick.
C3_StructuralSyncOthersLater ==
    /\ PassedThrough(Structural \cup SynchronousChecks)
    /\ CompletedLater(ValueOrMutating \ SynchronousChecks)

\* A reference has just been set through the accessor while a deferred
\* setValue and a deferred getValue have completed.
C3_Witness ==
    /\ last.op = "setReference"
    /\ last.after.target = "r2"
    /\ \E f, g \in Futures :
          /\ futs[f].cap = "getValue" /\ futs[f].st = "fulfilled"
          /\ futs[g].cap = "setValue" /\ futs[g].st = "fulfilled"

\* The futures made for accessor calls complete in the order of the calls.
CompleteInIssueOrder(f, g) ==
    (f < g /\ futs[g].st # "pending") =>
        /\ futs[f].st # "pending"
        /\ futs[f].seq < futs[g].seq

====
